---- MODULE Spec2Model ----
(***************************************************************************)
(* A model of the ase-espresso glue code:                                  *)
(*   - vibespresso (src/vibespresso.py): the warm-start calculator         *)
(*   - mongo_doc / mongo_doc_atoms (src/mongo.py): the document codec      *)
(*   - config (src/espsite.py): the cluster adapter                        *)
(* Each part has its own specification over the shared variables; the      *)
(* variables of the other parts stay at their initial value.               *)
(***************************************************************************)
EXTENDS Integers, Sequences, FiniteSets, TLC

VARIABLES
    \* ---- vibespresso instance (src/vibespresso.py) ----
    atoms,      \* self.atoms: the reference structure, or NoAtoms (None)
    ready,      \* self.ready
    firststep,  \* self.firststep
    counter,    \* self.counter
    arg,        \* self.arg: the solver keyword arguments (outdir, startingpot)
    esp,        \* self.esp: the current solver object, or NoEsp
    chgfile,    \* the equilibrium density file on disk (self.equilibriumdensity)
    ret,        \* outcome of the last request: what the caller got back
    hist,       \* history of the requests and of the solver runs (observation only)
    \* ---- one use of the document codec (src/mongo.py) ----
    mpc,        \* how far the use has come
    matoms,     \* the Atoms object given to mongo_doc
    doc,        \* what mongo_doc(matoms, **kwargs) gave
    back,       \* what mongo_doc_atoms(doc) gave
    doc2,       \* what a second mongo_doc call gave
    margs,      \* the extra pairs (kwargs) of the mongo_doc calls made, in order
    \* ---- one construction of the cluster adapter (src/espsite.py) ----
    env,        \* the process environment and the files it names
    cfg         \* the config object, once constructed

vibvars == <<atoms, ready, firststep, counter, arg, esp, chgfile, ret, hist>>
mongovars == <<mpc, matoms, doc, back, doc2, margs>>
cfgvars == <<env, cfg>>

vars == <<atoms, ready, firststep, counter, arg, esp, chgfile, ret, hist,
          mpc, matoms, doc, back, doc2, margs, env, cfg>>

(***************************************************************************)
(* Bounds                                                                  *)
(***************************************************************************)
\* Largest coordinate, in units of the comparison tolerance (1e-13).
MaxPos == 2
\* Number of requests made on one vibespresso instance.
MaxCalls == 3

(***************************************************************************)
(* vibespresso                                                             *)
(***************************************************************************)
\* The tolerance 1E-13 of update(), which is the unit of the coordinate grid.
Tol == 1

\* Position components of a structure; atoms.positions is the array of them.
\* The requests are the equilibrium geometry and its displacements along one
\* component, as a vibrational calculation makes them.
Comps == {"x", "y"}
Equilibrium == [c \in Comps |-> 0]
Structure == {[Equilibrium EXCEPT ![c] = d] : c \in Comps, d \in 0..MaxPos}

NoAtoms == <<>>
NoEsp == [made |-> FALSE]
NoFile == <<>>

\* '%04d' % n: the decimal digits of n, zero-padded on the left to width 4.
RECURSIVE Digits(_)
Digits(n) == IF n < 10 THEN <<n>> ELSE Digits(n \div 10) \o <<n % 10>>
RECURSIVE ZeroPad(_, _)
ZeroPad(s, w) == IF Len(s) >= w THEN s ELSE ZeroPad(<<0>> \o s, w)
Fmt04d(n) == ZeroPad(Digits(n), 4)

\* self.outdirprefix+'_%04d' % self.counter
OutdirName(n) == <<"out", "_">> \o Fmt04d(n)

\* np.abs of a number
Abs(n) == IF n < 0 THEN -n ELSE n

\* np.max(x) and np.min(x) of x = a.positions - b.positions
MaxDiff(a, b) == CHOOSE m \in {a[c] - b[c] : c \in Comps} :
                    \A c \in Comps : a[c] - b[c] <= m
MinDiff(a, b) == CHOOSE m \in {a[c] - b[c] : c \in Comps} :
                    \A c \in Comps : a[c] - b[c] >= m

DirtyInclusive(a, b) == MaxDiff(a, b) >= Tol \/ MinDiff(a, b) <= -Tol
\* update(): np.max(x)>1E-13 or np.min(x)<-1E-13
Dirty(a, b) == MaxDiff(a, b) > Tol \/ MinDiff(a, b) < -Tol

\* The solver calls of runcalc()'s two branches, in the order the code makes them.
FreshStepsNoSave == <<"espresso", "set_atoms", "get_potential_energy">>
FreshSteps == <<"espresso", "set_atoms", "get_potential_energy", "save_chg">>
FileSteps == <<"espresso", "set_atoms", "load_chg", "get_potential_energy", "stop">>

\* espresso(**self.arg): a new solver object configured from the arguments
NewEsp(a) == [made |-> TRUE, outdir |-> a.outdir, startingpot |-> a.startingpot,
              geom |-> NoAtoms, computed |-> NoAtoms, loaded |-> NoFile,
              stopped |-> FALSE]

\* The effect of one completed solver call on the solver object e.
EspStep(e, step, a, file) ==
    CASE step = "set_atoms" -> [e EXCEPT !.geom = a]
      [] step = "get_potential_energy" -> [e EXCEPT !.geom = a, !.computed = a]
      [] step = "load_chg" -> [e EXCEPT !.loaded = file]
      [] step = "stop" -> [e EXCEPT !.stopped = TRUE]
      [] OTHER -> e

\* The solver object after the first k calls of steps have completed; the
\* construction is the first call, and self.esp is assigned when it returns.
RECURSIVE EspAfter(_, _, _, _, _, _)
EspAfter(old, steps, k, ar, a, file) ==
    IF k = 0 THEN old
    ELSE IF k = 1 THEN NewEsp(ar)
    ELSE EspStep(EspAfter(old, steps, k - 1, ar, a, file), steps[k], a, file)

\* self.firststep after k calls of the fresh branch completed: the flag is
\* cleared after save_chg returned.
FirststepAfterEarly(k) == k < 3
FirststepAfter(k) == k < Len(FreshSteps)

\* update(atoms) with runcalc(atoms) inlined. failAt = 0: no solver call
\* raises; failAt = i: the i-th solver call of the branch taken raises.
\* op is the entry point and decides what is returned.  update() ends by
\* storing a copy of the request's structure in self.atoms, whether or not
\* the solver ran; a call that raises does not get there.
Request(op, a, failAt) ==
    LET hasRef == atoms # NoAtoms
        ready1 == IF hasRef /\ Dirty(a, atoms) THEN FALSE ELSE ready
        atoms1 == IF hasRef THEN atoms ELSE a
        run    == ~ready1
        steps  == IF firststep THEN FreshSteps ELSE FileSteps
        arg1   == IF ~run THEN arg
                  ELSE IF firststep THEN [arg EXCEPT !.outdir = OutdirName(counter)]
                  ELSE [arg EXCEPT !.outdir = OutdirName(counter),
                                   !.startingpot = "file"]
        failed == failAt # 0
        done   == IF ~run THEN 0 ELSE IF failed THEN failAt - 1 ELSE Len(steps)
        esp1   == EspAfter(esp, steps, done, arg1, a, chgfile)
        saves  == run /\ firststep /\ \E i \in 1..done : steps[i] = "save_chg"
        loads  == run /\ ~firststep /\ \E i \in 1..done : steps[i] = "load_chg"
    IN  /\ hist.calls < MaxCalls
        /\ failAt \in 0..(IF run THEN Len(steps) ELSE 0)
        /\ ready' = IF run /\ ~failed THEN TRUE ELSE ready1
        /\ counter' = IF run THEN counter + 1 ELSE counter
        /\ arg' = arg1
        /\ esp' = esp1
        /\ firststep' = IF run /\ firststep THEN FirststepAfter(done) ELSE firststep
        /\ chgfile' = IF saves THEN a ELSE chgfile
        /\ atoms' = IF failed THEN atoms1 ELSE a
        /\ ret' = IF failed THEN [kind |-> "raise", geom |-> NoAtoms]
                  ELSE IF op = "update" THEN [kind |-> "none", geom |-> NoAtoms]
                  ELSE [kind |-> op, geom |-> esp1.computed]
        /\ hist' = [calls |-> hist.calls + 1,
                    started |-> run,
                    cur |-> a,
                    failed |-> hist.failed \/ failed,
                    saves |-> hist.saves + (IF saves THEN 1 ELSE 0),
                    completed |-> hist.completed + (IF run /\ ~failed THEN 1 ELSE 0),
                    lastrun |-> IF run /\ ~failed THEN a ELSE hist.lastrun,
                    badload |-> hist.badload \/ (loads /\ chgfile = NoFile)]
        /\ UNCHANGED <<mongovars, cfgvars>>

\* vibespresso.update(atoms)
update(a, failAt) ==
    /\ a \in Structure
    /\ Request("update", a, failAt)

\* vibespresso.get_potential_energy(atoms, force_consistent)
get_potential_energy(a, force_consistent, failAt) ==
    /\ a \in Structure
    /\ Request(IF force_consistent THEN "energy_free" ELSE "energy_zero", a, failAt)

\* vibespresso.get_forces(atoms)
get_forces(a, failAt) ==
    /\ a \in Structure
    /\ Request("forces", a, failAt)

\* vibespresso.__init__(outdirprefix='out', **kwargs).  self.atoms is not
\* assigned by the constructor: it is None, or the copy that
\* atoms.set_calculator(calc) stored through the inherited set_atoms.
VibInit ==
    /\ atoms \in {NoAtoms} \cup Structure
    /\ ready = FALSE
    /\ firststep = TRUE
    /\ counter = 0
    /\ arg = [outdir |-> <<>>, startingpot |-> "default"]
    /\ esp = NoEsp
    /\ chgfile = NoFile
    /\ ret = [kind |-> "init", geom |-> NoAtoms]
    /\ hist = [calls |-> 0, started |-> FALSE, cur |-> NoAtoms,
               failed |-> FALSE, saves |-> 0, completed |-> 0, lastrun |-> NoAtoms,
               badload |-> FALSE]

VibNext ==
    \/ \E a \in Structure, f \in 0..5 : update(a, f)
    \/ \E a \in Structure, fc \in BOOLEAN, f \in 0..5 : get_potential_energy(a, fc, f)
    \/ \E a \in Structure, f \in 0..5 : get_forces(a, f)

MongoIdle ==
    /\ mpc = "idle" /\ matoms = <<>> /\ doc = <<>> /\ back = <<>> /\ doc2 = <<>>
    /\ margs = <<>>
ConfigIdle == env = <<>> /\ cfg = <<>>

Init == VibInit /\ MongoIdle /\ ConfigIdle
Next == VibNext
Spec == Init /\ [][Next]_vars

(***************************************************************************)
(* Properties of vibespresso                                               *)
(***************************************************************************)
\* Some component of a differs from b's by more than the tolerance.
ExceedsTol(a, b) == \E c \in Comps : Abs(a[c] - b[c]) > Tol
Returned == ret.kind \in {"energy_zero", "energy_free", "forces"}
\* The step is a request (not a stuttering step).
IsCall == hist'.calls = hist.calls + 1

\* C1: while no solver call has failed, a request starts a solver run exactly
\* when it is the first request or some component of its structure differs
\* from the previous request's structure by more than the tolerance; a
\* request that starts no run returns the values of the last run.
C1_RunsExactlyWhenDisplaced ==
    [][(IsCall /\ ~hist'.failed) =>
         /\ hist'.started <=> (hist.calls = 0 \/ ExceedsTol(hist'.cur, hist.cur))
         /\ hist'.completed = hist.completed + (IF hist'.started THEN 1 ELSE 0)
         /\ (~hist'.started /\ ret'.kind # "none") =>
                (ret'.geom = hist.lastrun /\ hist.lastrun # NoAtoms)]_vars

\* C1 witness: a second get_potential_energy displaced by exactly the
\* tolerance from the structure the solver ran on started no run.
C1_Witness ==
    /\ hist.calls = 2 /\ ~hist.failed /\ ~hist.started
    /\ ret.kind = "energy_zero" /\ hist.completed = 1
    /\ \E c \in Comps : Abs(hist.cur[c] - hist.lastrun[c]) = Tol

\* C2: the first solver run that completes is a fresh run and the only one
\* that saves the density file; every later completed run is configured with
\* startingpot = 'file' and loaded that file; the file is written at most
\* once and no load_chg happens before save_chg completed.
C2_WriteOnceThenLoad ==
    [][IsCall =>
         /\ hist'.saves <= 1
         /\ ~hist'.badload
         /\ (hist'.started /\ hist.completed >= 1) => arg'.startingpot = "file"
         /\ (hist'.completed = hist.completed + 1) =>
               IF hist.completed = 0
               THEN /\ esp'.loaded = NoFile
                    /\ hist.saves = 0 /\ hist'.saves = 1
                    /\ chgfile' = esp'.computed /\ chgfile' # NoFile
               ELSE /\ esp'.startingpot = "file"
                    /\ esp'.loaded = chgfile /\ chgfile # NoFile
                    /\ chgfile' = chgfile /\ hist'.saves = hist.saves]_vars

\* C2 witness: a fresh run failed, a later fresh run completed and saved the
\* density, and a third run loaded it.
C2_Witness ==
    /\ hist.failed /\ hist.completed = 2 /\ hist.saves = 1
    /\ esp.made /\ esp.loaded # NoFile /\ esp.loaded = chgfile

\* C6 as claimed: a request on which the solver raises leaves the ready
\* flag, the firststep flag, the counter, the solver arguments, the solver
\* handle and the reference positions as they were.
C6_AllOrNothing ==
    [][(IsCall /\ ret'.kind = "raise") =>
         UNCHANGED <<ready, firststep, counter, arg, esp, atoms>>]_vars

\* C6 amended: a request on which the solver raises keeps the firststep flag
\* and an already recorded reference structure, and is otherwise not rolled
\* back: ready is False, the counter has advanced by one and outdir names
\* the failed run.
C6_FailureLeavesRunAllocated ==
    [][(IsCall /\ ret'.kind = "raise") =>
         /\ firststep' = firststep
         /\ (atoms # NoAtoms => atoms' = atoms)
         /\ ready' = FALSE
         /\ counter' = counter + 1
         /\ arg'.outdir = OutdirName(counter)
         /\ (~firststep => arg'.startingpot = "file")]_vars

\* C6 witness: a request raised after an earlier run had completed.
C6_Witness == ret.kind = "raise" /\ hist.completed >= 1 /\ counter >= 2 /\ ~ready

\* C10 as claimed: a returned energy or force array comes from a solver run
\* whose geometry is within the tolerance of the requested structure.
C10_ResultsMatchRequest ==
    Returned => (ret.geom # NoAtoms /\ ~ExceedsTol(ret.geom, hist.cur))

(***************************************************************************)
(* The document codec (src/mongo.py)                                       *)
(***************************************************************************)
\* Largest number of atoms of a structure given to mongo_doc.
MaxAtoms == 2

None == <<>>
\* A float is finite, F(n), or not-a-number.
F(n) == <<"f", n>>
NaN == <<"nan", 0>>
IsFinite(v) == v[1] = "f"
\* A numpy array holding the sequence x, and ndarray.tolist().
Arr(x) == <<"ndarray", x>>
ToList(a) == a[2]
EmptyDict == <<>>

\* json.dumps (through ase.io.jsonio.encode) accepts every float: allow_nan
\* is left at its default, so a not-a-number is written as the token NaN.
EncodableStrict(v) == IsFinite(v)
Encodable(v) == TRUE
\* encode(x) of a float and json.loads of the text.
JsonText(v) == IF IsFinite(v) THEN <<"number", v[2]>> ELSE <<"NaN">>
JsonParse(t) == IF t[1] = "number" THEN F(t[2]) ELSE NaN
JsonFloat(v) == JsonParse(JsonText(v))
\* json.loads(encode(l)) of a list of floats, and of an array of floats.
JsonList(l) == [i \in 1..Len(l) |-> JsonFloat(l[i])]
JsonArray(a) == JsonList(ToList(a))

\* ase.Atom(symbol, position, tag, momentum, magmom, charge)
Atom(sym, pos, tag, mom, mag, chg) ==
    [symbol |-> sym, position |-> Arr(pos), tag |-> tag,
     momentum |-> Arr(mom), magmom |-> mag, charge |-> chg]

Mass(sym) == IF sym = "H" THEN 1 ELSE 16
RECURSIVE SumMasses(_)
SumMasses(as) == IF as = <<>> THEN 0 ELSE Mass(Head(as).symbol) + SumMasses(Tail(as))
\* The cell is kept as its diagonal; np.linalg.det(cell) and get_volume().
Det(cell) == ToList(cell)[1] * ToList(cell)[2] * ToList(cell)[3]
Volume(cell) == IF Det(cell) < 0 THEN -Det(cell) ELSE Det(cell)

\* c.todict() of a constraint and ase.constraints.dict2constraint
todict(c) == [name |-> c[1], kwargs |-> [indices |-> c[2]]]
dict2constraint(dc) == <<dc.name, dc.kwargs.indices>>

\* Every float that mongo_atoms_doc hands to encode() can be encoded.
AtomsEncodable(at) ==
    \A i \in 1..Len(at.atoms) :
        /\ \A k \in 1..Len(ToList(at.atoms[i].position)) :
               Encodable(ToList(at.atoms[i].position)[k])
        /\ \A k \in 1..Len(ToList(at.atoms[i].momentum)) :
               Encodable(ToList(at.atoms[i].momentum)[k])
        /\ Encodable(at.atoms[i].charge)
        /\ Encodable(at.atoms[i].magmom)

\* mongo_atoms_doc(atoms)
mongo_atoms_doc(at) ==
    LET n == Len(at.atoms)
        syms == {at.atoms[i].symbol : i \in 1..n}
        d == [atoms |-> [i \in 1..n |->
                           [symbol |-> at.atoms[i].symbol,
                            position |-> JsonList(JsonArray(at.atoms[i].position)),
                            tag |-> at.atoms[i].tag,
                            index |-> i - 1,
                            charge |-> JsonFloat(at.atoms[i].charge),
                            momentum |-> JsonList(JsonArray(at.atoms[i].momentum)),
                            magmom |-> JsonFloat(at.atoms[i].magmom)]],
              cell |-> ToList(at.cell),
              pbc |-> ToList(at.pbc),
              info |-> at.info,
              constraints |-> [i \in 1..Len(at.constraints) |-> todict(at.constraints[i])],
              natoms |-> n,
              mass |-> SumMasses(at.atoms),
              chemical_symbols |-> syms,
              symbol_counts |-> [sy \in syms |->
                                   Cardinality({i \in 1..n : at.atoms[i].symbol = sy})],
              spacegroup |-> <<"spglib", n, ToList(at.cell)>>]
    IN  IF Det(at.cell) > 0 THEN ("volume" :> Volume(at.cell)) @@ d ELSE d

NoCalc == <<>>
Quantities == {"energy", "forces", "stress"}

\* max(np.abs(f.flatten())) of a list of numbers
MaxAbs(l) == CHOOSE m \in {Abs(l[i]) : i \in 1..Len(l)} :
                \A i \in 1..Len(l) : Abs(l[i]) <= m

\* calc.calculation_required(atoms, [q])
calculation_required(calc, q) == q \notin calc.avail

\* One quantity of the results sub-document: stored when the calculator does
\* not require a calculation for it, left out otherwise.
ResultEntryNull(calc, q, v) == IF ~calculation_required(calc, q) THEN q :> v ELSE q :> None
ResultEntry(calc, q, v) == IF ~calculation_required(calc, q) THEN q :> v ELSE EmptyDict

\* The derived maximum of a quantity (fmax, smax).
DerivedEntry(calc, q, key) ==
    IF ~calculation_required(calc, q) THEN key :> MaxAbs(ToList(calc[q])) ELSE EmptyDict

\* calc.beefensemble / calc.printensemble are read as plain attributes once
\* the energy is available: a calculator without them raises AttributeError.
BeefLookupFails(calc) ==
    /\ calc # NoCalc
    /\ ~calculation_required(calc, "energy")
    /\ ~calc.hasBeef

\* d['results'] of mongo_doc
Results(calc) ==
    IF calc = NoCalc THEN EmptyDict
    ELSE ResultEntry(calc, "energy", calc.energy)
         @@ (IF ~calculation_required(calc, "energy")
                /\ calc.beefensemble /\ calc.printensemble
             THEN "beefensemble" :> calc.ensemble ELSE EmptyDict)
         @@ ResultEntry(calc, "forces", ToList(calc.forces))
         @@ DerivedEntry(calc, "forces", "fmax")
         @@ ResultEntry(calc, "stress", ToList(calc.stress))
         @@ DerivedEntry(calc, "stress", "smax")

\* d['calculator'] of mongo_doc
CalculatorDoc(calc) ==
    ("module" :> calc.module) @@ ("class" :> calc.cls)
    @@ (IF calc.hasTodict THEN calc.params ELSE EmptyDict)

\* hashlib.sha1(text).hexdigest(): equal digests for equal content only.
SHA1(content) == <<"sha1", content>>

\* What encode(d) sees when the hash is taken: the document as assembled so
\* far, before ctime, mtime and the extra pairs are added.
HashInputStamped(d, ctime, mtime, kwargs) ==
    kwargs @@ ("ctime" :> ctime) @@ ("mtime" :> mtime) @@ d
HashInput(d, ctime, mtime, kwargs) == d

Ok(d) == [ok |-> TRUE, err |-> "", d |-> d]
Raise(e) == [ok |-> FALSE, err |-> e, d |-> EmptyDict]

\* mongo_doc(atoms, **kwargs), called by user at the times ctime and mtime
\* that the two utcnow() calls read.
mongo_doc(at, user, ctime, mtime, kwargs) ==
    LET calc == at.calc
        d1 == ("atoms" :> mongo_atoms_doc(at))
              @@ (IF calc # NoCalc THEN "calculator" :> CalculatorDoc(calc)
                  ELSE EmptyDict)
        d2 == d1 @@ ("results" :> Results(calc)) @@ ("user" :> user)
        d3 == ("inserted-hash" :> SHA1(HashInput(d2, ctime, mtime, kwargs))) @@ d2
        d4 == ("ctime" :> ctime) @@ ("mtime" :> mtime) @@ d3
    IN  IF ~AtomsEncodable(at) THEN Raise("ValueError")
        ELSE IF BeefLookupFails(calc) THEN Raise("AttributeError")
        ELSE Ok(kwargs @@ d4)

\* ase.calculators.singlepoint.SinglePointCalculator(energy, forces, stress)
SinglePointCalculator(energy, forces, stress) ==
    [cls |-> "SinglePointCalculator", module |-> "ase.calculators.singlepoint",
     hasTodict |-> FALSE, params |-> EmptyDict,
     hasBeef |-> FALSE, beefensemble |-> FALSE, printensemble |-> FALSE,
     avail |-> {q \in Quantities :
                  \/ q = "energy" /\ energy # None
                  \/ q = "forces" /\ forces # None
                  \/ q = "stress" /\ stress # None},
     energy |-> energy,
     forces |-> IF forces = None THEN None ELSE Arr(forces),
     stress |-> IF stress = None THEN None ELSE Arr(stress),
     ensemble |-> None]

\* results.get(key, None)
Get(r, key) == IF key \in DOMAIN r THEN r[key] ELSE None

\* mongo_doc_atoms(doc)
mongo_doc_atoms(d) ==
    LET a == d["atoms"]
        r == d["results"]
    IN  [atoms |-> [i \in 1..Len(a.atoms) |->
                      [symbol |-> a.atoms[i].symbol,
                       position |-> Arr(a.atoms[i].position),
                       tag |-> a.atoms[i].tag,
                       momentum |-> Arr(a.atoms[i].momentum),
                       magmom |-> a.atoms[i].magmom,
                       charge |-> a.atoms[i].charge]],
         cell |-> Arr(a.cell),
         pbc |-> Arr(a.pbc),
         info |-> a.info,
         constraints |-> [i \in 1..Len(a.constraints) |-> dict2constraint(a.constraints[i])],
         calc |-> SinglePointCalculator(Get(r, "energy"), Get(r, "forces"),
                                        Get(r, "stress"))]

(***************************************************************************)
(* The inputs of the codec                                                 *)
(***************************************************************************)
AtomSet ==
    { Atom("H", <<F(0)>>, 0, <<F(0)>>, F(0), F(0)),
      Atom("O", <<F(1)>>, 1, <<F(2)>>, F(3), F(4)),
      Atom("H", <<NaN>>, 0, <<F(0)>>, F(0), F(0)),
      Atom("O", <<F(1)>>, 0, <<NaN>>, NaN, NaN) }

\* cell, pbc, info and constraints of a structure
Frames ==
    { [cell |-> Arr(<<0, 0, 0>>), pbc |-> Arr(<<FALSE, FALSE, FALSE>>),
       info |-> {}, constraints |-> <<>>],
      [cell |-> Arr(<<1, 1, 2>>), pbc |-> Arr(<<TRUE, TRUE, FALSE>>),
       info |-> {<<"note", "relaxed">>}, constraints |-> << <<"FixAtoms", <<0>> >> >>] }

\* The forces of a calculator: n rows, one number each.
ForceRows(n) == [i \in 1..n |-> IF i % 2 = 1 THEN -2 ELSE 1]

\* A calculator holding results for the quantities in avail, with a force
\* array of nf rows.
CalcWith(cls, todictable, beef, flags, avail, nf) ==
    [cls |-> cls, module |-> cls,
     hasTodict |-> todictable, params |-> IF todictable THEN "mode" :> "scf" ELSE EmptyDict,
     hasBeef |-> beef, beefensemble |-> flags[1], printensemble |-> flags[2],
     avail |-> avail,
     energy |-> IF "energy" \in avail THEN F(-3) ELSE None,
     forces |-> IF "forces" \in avail THEN Arr(ForceRows(nf)) ELSE None,
     stress |-> IF "stress" \in avail THEN Arr(<<1, -4>>) ELSE None,
     ensemble |-> IF "energy" \in avail /\ flags[1] /\ flags[2] THEN <<7, 8>> ELSE None]

\* The calculators attached to a structure of n atoms: none, an espresso
\* calculator (todict, ensemble flags), or one offering neither.
Calcs(n) ==
    {NoCalc}
    \cup { CalcWith("espresso", TRUE, TRUE, fl, av, nf) :
             fl \in {<<FALSE, FALSE>>, <<TRUE, FALSE>>, <<TRUE, TRUE>>},
             av \in SUBSET Quantities,
             nf \in {n, n + 1} }
    \cup { CalcWith("plain", FALSE, FALSE, <<FALSE, FALSE>>, av, nf) :
             av \in SUBSET Quantities, nf \in {n, n + 1} }

AtomsObjects ==
    UNION { { [atoms |-> as, cell |-> fr.cell, pbc |-> fr.pbc, info |-> fr.info,
               constraints |-> fr.constraints, calc |-> c] :
                fr \in Frames, c \in Calcs(Len(as)) } :
            as \in UNION {[1..n -> AtomSet] : n \in 1..MaxAtoms} }

\* os.getenv('USER')
User == "alice"
\* The extra key/value pairs of a call.
Extras == { EmptyDict, "project" :> "p1", "user" :> "eve",
            "inserted-hash" :> SHA1(EmptyDict) }
\* The times the two utcnow() calls of one mongo_doc call read.
Stamps == { <<1, 1>>, <<1, 2>>, <<2, 2>> }

Encode(st, kw) ==
    /\ mpc = "init"
    /\ doc' = mongo_doc(matoms, User, st[1], st[2], kw)
    /\ mpc' = "encoded"
    /\ margs' = Append(margs, kw)
    /\ UNCHANGED <<matoms, back, doc2, vibvars, cfgvars>>

Decode ==
    /\ mpc = "encoded" /\ doc.ok
    /\ back' = mongo_doc_atoms(doc.d)
    /\ mpc' = "decoded"
    /\ UNCHANGED <<matoms, doc, doc2, margs, vibvars, cfgvars>>

\* mongo_doc on the structure that mongo_doc_atoms returned
ReEncode(st) ==
    /\ mpc = "decoded"
    /\ doc2' = mongo_doc(back, User, st[1], st[2], EmptyDict)
    /\ mpc' = "reencoded"
    /\ margs' = Append(margs, EmptyDict)
    /\ UNCHANGED <<matoms, doc, back, vibvars, cfgvars>>

\* a second mongo_doc call on the same structure
EncodeAgain(st, kw) ==
    /\ mpc = "encoded"
    /\ doc2' = mongo_doc(matoms, User, st[1], st[2], kw)
    /\ mpc' = "encoded2"
    /\ margs' = Append(margs, kw)
    /\ UNCHANGED <<matoms, doc, back, vibvars, cfgvars>>

VibIdle ==
    /\ atoms = NoAtoms /\ ready = FALSE /\ firststep = TRUE /\ counter = 0
    /\ arg = <<>> /\ esp = NoEsp /\ chgfile = NoFile /\ ret = <<>> /\ hist = <<>>

MongoInit ==
    /\ mpc = "init"
    /\ matoms \in AtomsObjects
    /\ doc = <<>> /\ back = <<>> /\ doc2 = <<>> /\ margs = <<>>
    /\ VibIdle /\ ConfigIdle

MongoNext ==
    \/ \E st \in Stamps, kw \in Extras : Encode(st, kw)
    \/ Decode
    \/ \E st \in {<<2, 2>>} : ReEncode(st)
    \/ \E st \in {<<1, 1>>, <<2, 2>>}, kw \in Extras : EncodeAgain(st, kw)

SpecMongo == MongoInit /\ [][MongoNext]_vars

(***************************************************************************)
(* Properties of the codec                                                 *)
(***************************************************************************)
\* Every numeric field of every atom is finite.
AllFinite(at) ==
    \A i \in 1..Len(at.atoms) :
        /\ \A k \in 1..Len(ToList(at.atoms[i].position)) :
               IsFinite(ToList(at.atoms[i].position)[k])
        /\ \A k \in 1..Len(ToList(at.atoms[i].momentum)) :
               IsFinite(ToList(at.atoms[i].momentum)[k])
        /\ IsFinite(at.atoms[i].charge)
        /\ IsFinite(at.atoms[i].magmom)

\* The force array of the attached result has not one row per atom.
ShapeMismatch(at) ==
    /\ at.calc # NoCalc
    /\ "forces" \in at.calc.avail
    /\ Len(ToList(at.calc.forces)) # Len(at.atoms)

SameStructure(b, s) ==
    /\ Len(b.atoms) = Len(s.atoms)
    /\ \A i \in 1..Len(s.atoms) :
          /\ b.atoms[i].symbol = s.atoms[i].symbol
          /\ b.atoms[i].position = s.atoms[i].position
          /\ b.atoms[i].tag = s.atoms[i].tag
          /\ b.atoms[i].momentum = s.atoms[i].momentum
          /\ b.atoms[i].charge = s.atoms[i].charge
    /\ b.cell = s.cell /\ b.pbc = s.pbc /\ b.info = s.info
    /\ b.constraints = s.constraints

\* The decoded result has every field of the original result that was
\* present, and None where the original had none.
SameResultFields(b, s, fields) ==
    \A q \in fields :
        IF s.calc # NoCalc /\ s.calc[q] # None
        THEN b.calc[q] = s.calc[q]
        ELSE b.calc[q] = None

\* C3 as claimed: decoding the document of a structure with finite fields
\* gives back the structure and every result field that was present:
\* energy, forces, stress and ensemble energies.
C3_RoundTrip ==
    (mpc = "decoded" /\ AllFinite(matoms)) =>
        /\ SameStructure(back, matoms)
        /\ SameResultFields(back, matoms, {"energy", "forces", "stress", "ensemble"})

\* C4: in a returned document the results hold energy, forces (with fmax)
\* and stress (with smax) exactly when a calculator is attached that does not
\* require a calculation for the quantity, with the calculator's values, and
\* no stored result is None.
C4_ResultsPresentIffAvailable ==
    (mpc = "encoded" /\ doc.ok) =>
        LET r == doc.d["results"]
            calc == matoms.calc
        IN  /\ \A q \in Quantities :
                  (q \in DOMAIN r) <=> (calc # NoCalc /\ q \in calc.avail)
            /\ ("fmax" \in DOMAIN r) <=> ("forces" \in DOMAIN r)
            /\ ("smax" \in DOMAIN r) <=> ("stress" \in DOMAIN r)
            /\ \A q \in DOMAIN r \cap (Quantities \cup {"beefensemble"}) : r[q] # None
            /\ "energy" \in DOMAIN r => r["energy"] = calc.energy
            /\ "forces" \in DOMAIN r =>
                  /\ r["forces"] = ToList(calc.forces)
                  /\ \A i \in 1..Len(r["forces"]) : Abs(r["forces"][i]) <= r["fmax"]
            /\ "stress" \in DOMAIN r =>
                  /\ r["stress"] = ToList(calc.stress)
                  /\ \A i \in 1..Len(r["stress"]) : Abs(r["stress"][i]) <= r["smax"]

\* C4 witness: a document whose calculator had the forces but required a
\* calculation for energy and stress.
C4_Witness ==
    /\ mpc = "encoded" /\ doc.ok
    /\ matoms.calc # NoCalc /\ matoms.calc.avail = {"forces"}
    /\ DOMAIN doc.d["results"] = {"forces", "fmax"}

Without(f, k) == [x \in DOMAIN f \ {k} |-> f[x]]
NoHashGiven(kw) == "inserted-hash" \notin DOMAIN kw

C7_SerializationError ==
    (mpc = "encoded" /\ (~AllFinite(matoms) \/ ShapeMismatch(matoms))) =>
        (~doc.ok /\ doc.err = "SerializationError")

\* C7 amended: mongo_doc validates nothing and raises no SerializationError:
\* for such a structure it returns a document (unless the calculator lacks the
\* ensemble attributes, which is an AttributeError) that holds the non-finite
\* values and the mismatched force array as given.
C7_NoValidation ==
    (mpc = "encoded" /\ (~AllFinite(matoms) \/ ShapeMismatch(matoms))) =>
        LET calc == matoms.calc
            lacks == calc # NoCalc /\ "energy" \in calc.avail /\ ~calc.hasBeef
        IN  /\ doc.ok <=> ~lacks
            /\ ~doc.ok => doc.err = "AttributeError"
            /\ doc.ok =>
                 /\ \A i \in 1..Len(matoms.atoms) :
                       /\ doc.d["atoms"].atoms[i].position
                             = ToList(matoms.atoms[i].position)
                       /\ doc.d["atoms"].atoms[i].momentum
                             = ToList(matoms.atoms[i].momentum)
                       /\ doc.d["atoms"].atoms[i].charge = matoms.atoms[i].charge
                       /\ doc.d["atoms"].atoms[i].magmom = matoms.atoms[i].magmom
                 /\ ShapeMismatch(matoms) =>
                       Len(doc.d["results"]["forces"]) # doc.d["atoms"].natoms

\* C7 witness: a document returned for a structure with a not-a-number
\* position and a force array of the wrong length.
C7_Witness ==
    /\ mpc = "encoded" /\ doc.ok
    /\ ~AllFinite(matoms) /\ ShapeMismatch(matoms)
    /\ \E i \in 1..Len(matoms.atoms) : doc.d["atoms"].atoms[i].position = <<NaN>>

\* C9 as claimed: a calculator that has the energy but offers no ensemble
\* flags is encoded without raising, with the energy and without ensemble
\* energies; so every decoded structure can be encoded again.
C9_EnsembleOptional ==
    /\ (mpc = "encoded" /\ matoms.calc # NoCalc
          /\ "energy" \in matoms.calc.avail /\ ~matoms.calc.hasBeef) =>
          /\ doc.ok
          /\ "energy" \in DOMAIN doc.d["results"]
          /\ "beefensemble" \notin DOMAIN doc.d["results"]
    /\ mpc = "reencoded" => doc2.ok

(***************************************************************************)
(* The cluster adapter (src/espsite.py)                                    *)
(***************************************************************************)
\* Largest number of lines of the node-list file ($PBS_NODEFILE).
MaxLines == 4

Hosts == {"n1", "n2", "n3"}
\* A line of the node-list file: a hostname and its newline.
Line(h) == <<h, "\n">>
\* x.strip() of a line
Strip(l) == l[1]

\* uniq(1): of every run of equal adjacent lines the first is kept.
RECURSIVE Uniq(_)
Uniq(ls) ==
    IF Len(ls) <= 1 THEN ls
    ELSE IF ls[1] = ls[2] THEN Uniq(Tail(ls))
         ELSE <<ls[1]>> \o Uniq(Tail(ls))

\* wc -l: the number of newlines, printed in decimal
WcL(ls) == Digits(Cardinality({i \in 1..Len(ls) : ls[i][2] = "\n"}))

NoConfig == <<>>

\* config.__init__()
Construct ==
    /\ cfg = NoConfig
    /\ LET scratch == IF env.scratchExists
                      THEN <<"/nv/hp22/", env.USER, "/scratch">>
                      ELSE <<"/tmp">>
           batch == env.PBS_O_WORKDIR # "None"
           procs == [i \in 1..Len(env.nodefile) |-> Strip(env.nodefile[i])]
           nprocs == Len(procs)
           uniqnodefile == scratch \o <<"/uniqnodefile">>
           nnodes == WcL(Uniq(env.nodefile))
       IN  cfg' = IF batch
                  THEN [scratch |-> scratch, mpiexec |-> "mpirun",
                        submitdir |-> env.PBS_O_WORKDIR, batch |-> TRUE,
                        procs |-> procs, jobid |-> env.PBS_JOBID, nprocs |-> nprocs,
                        perHostMpiExec |->
                            <<"mpirun", " -machinefile ", uniqnodefile, " -np ", nnodes>>,
                        perProcMpiExec |->
                            <<"mpirun", " -machinefile ", env.PBS_NODEFILE, " -np ",
                              Digits(nprocs), " -wdir %s %s">>,
                        perSpecProcMpiExec |->
                            <<"mpirun", " -machinefile %s -np %d -wdir %s %s">>]
                  ELSE [scratch |-> scratch, mpiexec |-> "mpirun",
                        submitdir |-> env.PBS_O_WORKDIR, batch |-> FALSE]
    /\ UNCHANGED <<env, vibvars, mongovars>>

\* The environment of the process: under a queued job PBS_O_WORKDIR is set
\* and PBS_NODEFILE names a file with one line per allocated process.
ConfigInit ==
    /\ env \in { [USER |-> "alice", scratchExists |-> se, PBS_O_WORKDIR |-> wd,
                  PBS_NODEFILE |-> "/var/pbs/nodes", PBS_JOBID |-> "42.pbs",
                  nodefile |-> [i \in 1..n |-> Line(hs[i])]] :
                    se \in BOOLEAN, wd \in {"None", "/home/alice/job"},
                    n \in 1..MaxLines, hs \in [1..MaxLines -> Hosts] }
    /\ cfg = NoConfig
    /\ VibIdle /\ MongoIdle

ConfigNext == Construct

SpecConfig == ConfigInit /\ [][ConfigNext]_vars

\* C8 as claimed: under a queued job the -np value of perHostMpiExec is the
\* number of distinct hostnames of the node-list file, whatever the order of
\* its lines, and nprocs is the number of lines.
C8_NodeCountIsDistinctHosts ==
    (cfg # NoConfig /\ cfg.batch) =>
        /\ cfg.perHostMpiExec[5]
              = Digits(Cardinality({env.nodefile[i][1] : i \in 1..Len(env.nodefile)}))
        /\ cfg.nprocs = Len(env.nodefile)

====
